---------------------------- MODULE Spec2Model ----------------------------
(***************************************************************************)
(* Model of the lead discovery pipeline (src/lead_generator.py,            *)
(* LeadGenerator.generate_leads) and of the lead quality filter            *)
(* (src/lead_quality_finder.py, LeadQualityFilter).                        *)
(*                                                                         *)
(* generate_leads is a sequential procedure with blocking provider calls   *)
(* and pauses.  It is modelled as one process whose position is pc; every  *)
(* provider request, every pause and every loop head is one action.  The   *)
(* three provider services are the environment: each request is answered   *)
(* by a response drawn from a bounded set of JSON documents, well formed   *)
(* or not.  A JSON object is a record; d['k'] on an object without the key *)
(* k raises KeyError, which the model renders as a jump to the handler of  *)
(* the enclosing try block.                                                *)
(***************************************************************************)
EXTENDS Integers, Sequences, FiniteSets, TLC

(***************************************************************************)
(* Bounds of the model.                                                    *)
(***************************************************************************)
MaxResultsBound == 2     \* max_results is drawn from 0..MaxResultsBound
NumPlaceIds     == 3     \* provider identities are 1..NumPlaceIds
MaxPageLen      == 2     \* a search page carries at most this many places
CountCap        == 2     \* the request counters saturate at this value
MaxPieces       == 4     \* a key_facts string has at most this many pieces
MaxMinKeyFacts  == 3     \* min_key_facts is drawn from 0..MaxMinKeyFacts
MaxLeads        == 2     \* filter_leads is given lists of at most this many leads
MaxSorted       == 3     \* enrich_leads_with_scores sorts lists of at most this many leads
MaxStubPages    == 2     \* a stub provider serves at most this many search pages

VARIABLES
    pc,               \* position of generate_leads
    max_results,      \* argument of the call
    business_type,    \* argument of the call
    geocode_data,     \* the geocode response (`data` of _get_location_bounds)
    location_data,    \* result of _get_location_bounds
    leads,            \* the list `leads`
    processed_places, \* the set `processed_places`
    next_page_token,  \* the local `next_page_token`
    data,             \* the search response being processed
    places,           \* the places of data['results'] the for loop has not visited yet
    place,            \* the loop variable `place`
    details_data,     \* the details response of the last lookup
    result,           \* the value returned by the call
    leadSrc,          \* history: for each lead, the place and details it was built from
    geocodeReqs,      \* history: geocode requests sent (saturating)
    searchReqs,       \* history: search requests sent (saturating)
    detailReqs,       \* history: detail requests sent (saturating)
    pauseOwed,        \* history: a detail lookup was issued and no politeness pause since
    settled,          \* history: the settle delay was taken since the last page response
    breakLeads,       \* history: the value of leads when a search page reported non-success
    exc,              \* the exception being propagated, "none" when there is none
    exit,             \* history: the statement through which the call ended
    scenario,         \* the provider the call runs against, and the call's arguments
    served,           \* history: search pages the provider has served
    lookedUp,         \* history: the identities a detail lookup was issued for
    dropped,          \* history: the identities dropped by the bounds test
    qpc,              \* position of the caller of LeadQualityFilter
    config,           \* LeadQualityFilter.config
    qleads,           \* the argument `leads` of filter_leads
    target_location,  \* the argument `target_location` of filter_leads
    filtered_leads,   \* the list filter_leads returned
    score_call,       \* the last call of calculate_quality_score: its lead and its value
    df                \* the rows of the DataFrame enrich_leads_with_scores returned

\* The variables of generate_leads.
dvars == << pc, max_results, business_type, geocode_data, location_data, leads,
            processed_places, next_page_token, data, places, place, details_data,
            result, leadSrc, geocodeReqs, searchReqs, detailReqs, pauseOwed, settled,
            breakLeads, exc, exit, scenario, served, lookedUp, dropped >>

\* The variables of a use of LeadQualityFilter.
qvars == << qpc, config, qleads, target_location, filtered_leads, score_call, df >>

vars == << dvars, qvars >>

(***************************************************************************)
(* Python values.                                                          *)
(***************************************************************************)
None == [none |-> TRUE]                      \* Python's None
HasKey(d, k) == k \in DOMAIN d               \* k in d
Bump(n) == IF n < CountCap THEN n + 1 ELSE n \* a saturating history counter

(***************************************************************************)
(* The provider's documents.                                               *)
(***************************************************************************)
PlaceIds == 1 .. NumPlaceIds

\* The viewport the geocoding service reports for the location.
Viewport == [southwest |-> [lat |-> 1, lng |-> 1], northeast |-> [lat |-> 2, lng |-> 2]]

\* Coordinates a candidate may carry: a corner of the viewport (on its south
\* and east edges), a point south of it and a point east of it.
CandPoints == { [lat |-> 1, lng |-> 2], [lat |-> 0, lng |-> 1], [lat |-> 2, lng |-> 3] }

GeoResult(vp) == [geometry |-> [location |-> [lat |-> 1, lng |-> 1], viewport |-> vp]]

\* Responses of the geocoding service: success, success with a viewport that
\* lacks its corners, success without results, non-success (without and with
\* results), no status field,
\* and a request that fails (requests.get or response.json() raises).
GeocodeResponses ==
    { [status |-> "OK", results |-> << GeoResult(Viewport) >>],
      [status |-> "OK", results |-> << GeoResult([unexpected |-> TRUE]) >>],
      [status |-> "OK", results |-> << >>],
      [status |-> "ZERO_RESULTS", results |-> << >>],
      [status |-> "REQUEST_DENIED"],
      [status |-> "UNKNOWN_ERROR", results |-> << GeoResult(Viewport) >>],
      [error_message |-> "malformed"],
      [exception |-> "ConnectionError"] }

Places == { [place_id |-> i, geometry |-> [location |-> p]] : i \in PlaceIds, p \in CandPoints }
              \cup { [name |-> "no identity"] }

RECURSIVE SeqsUpTo(_, _)
SeqsUpTo(S, n) ==
    IF n = 0 THEN { << >> }
    ELSE LET shorter == SeqsUpTo(S, n - 1)
         IN  shorter \cup { Append(s, x) : s \in { t \in shorter : Len(t) = n - 1 }, x \in S }

Pages == SeqsUpTo(Places, MaxPageLen)

\* Responses of the search service.
SearchResponses ==
    { [status |-> "OK", results |-> r] : r \in Pages }
      \cup { [status |-> "OK", results |-> r, next_page_token |-> "token"] : r \in Pages }
      \cup { [status |-> "OK", next_page_token |-> "token"],
             [status |-> "OVER_QUERY_LIMIT", results |-> << >>],
             [error_message |-> "malformed"],
             [exception |-> "ConnectionError"] }

\* Responses of the details service.
DetailResponses ==
    { [status |-> "OK", result |-> [name |-> "Acme", formatted_address |-> "1 Main St",
                                    website |-> "http://acme.example",
                                    business_status |-> "OPERATIONAL"]],
      [status |-> "OK", result |-> [name |-> "Acme", business_status |-> "CLOSED_TEMPORARILY"]],
      [status |-> "OK", result |-> [name |-> "Acme"]],
      [status |-> "OK"],
      [status |-> "NOT_FOUND"],
      [error_message |-> "malformed"],
      [exception |-> "ConnectionError"] }

(***************************************************************************)
(* What the call runs against.  Unscripted services answer a request with  *)
(* any of their responses.  A stub provider never fails: it geocodes the   *)
(* location to Viewport, serves its pages in order, each but the last with *)
(* a page token, and reports a place as OPERATIONAL or as closed.          *)
(***************************************************************************)
Unscripted == [kind |-> "any"]

\* The name of the business with the identity i.
PlaceNames == << "A", "B", "C", "D", "E", "F", "G", "H" >>

StubPlace(i, point) == [place_id |-> i, geometry |-> [location |-> point]]

StubDetails(sc, p) ==
    IF p.place_id \in sc.operational
    THEN [status |-> "OK", result |-> [name |-> PlaceNames[p.place_id],
                                       formatted_address |-> "1 Main St",
                                       business_status |-> "OPERATIONAL"]]
    ELSE [status |-> "OK", result |-> [name |-> PlaceNames[p.place_id],
                                       business_status |-> "CLOSED_TEMPORARILY"]]

StubPage(sc, n) ==
    IF n >= Len(sc.pages) THEN [status |-> "ZERO_RESULTS", results |-> << >>]
    ELSE IF n + 1 < Len(sc.pages)
    THEN [status |-> "OK", results |-> sc.pages[n + 1], next_page_token |-> "token"]
    ELSE [status |-> "OK", results |-> sc.pages[n + 1]]

\* Coordinates of the candidates of a stub provider: the corner of the
\* viewport on its south and east edges, the corner on its north and west
\* edges, and a point outside.
StubPoints == { [lat |-> 1, lng |-> 2], [lat |-> 2, lng |-> 1], [lat |-> 0, lng |-> 1] }

StubPlaces == { StubPlace(i, pt) : i \in PlaceIds, pt \in StubPoints }

\* Stub providers with one to MaxStubPages pages of at most MaxPageLen
\* candidates, every place operational or all but the first, asked for up to
\* MaxResultsBound leads.
StubScenarios ==
    { [kind |-> "stub", pages |-> ps, operational |-> op, max_results |-> mr] :
        ps \in SeqsUpTo(SeqsUpTo(StubPlaces, MaxPageLen), MaxStubPages) \ { << >> },
        op \in { PlaceIds, PlaceIds \ { 1 } },
        mr \in 0 .. MaxResultsBound }

\* The stub of the end-to-end run: 7 candidates, two of them the same
\* candidate, one outside the viewport, one not operational, in any order, on
\* a page of four and a page of three; 5 leads are asked for.
EndToEndCandidates ==
    LET inside == [lat |-> 1, lng |-> 2] IN
    << StubPlace(1, inside), StubPlace(1, inside), StubPlace(2, inside), StubPlace(3, inside),
       StubPlace(4, inside), StubPlace(5, [lat |-> 0, lng |-> 1]), StubPlace(6, inside) >>

EndToEndScenarios ==
    { [kind |-> "stub",
       pages |-> << [i \in 1 .. 4 |-> EndToEndCandidates[perm[i]]],
                    [i \in 1 .. 3 |-> EndToEndCandidates[perm[i + 4]]] >>,
       operational |-> 1 .. 5,
       max_results |-> 5] : perm \in Permutations(1 .. 7) }

\* line 42: the argument max_results
MaxResultsAsked(sc) ==
    IF sc = Unscripted THEN 0 .. MaxResultsBound ELSE { sc.max_results }

\* line 19: the answers to the geocode request
GeocodeAnswers(sc) ==
    IF sc = Unscripted THEN GeocodeResponses
    ELSE { [status |-> "OK", results |-> << GeoResult(Viewport) >>] }

\* line 74: the answers to the search request after n pages
SearchAnswers(sc, n) ==
    IF sc = Unscripted THEN SearchResponses ELSE { StubPage(sc, n) }

\* line 106: the answers to the detail lookup of the place p
DetailAnswers(sc, p) ==
    IF sc = Unscripted THEN DetailResponses ELSE { StubDetails(sc, p) }

(***************************************************************************)
(* _get_location_bounds (lines 16-35).                                     *)
(***************************************************************************)
\* The exception lines 19-31 raise on the geocode response, "none" when they
\* run to the return statement.
GeocodeFaultNoStatusTest(resp) ==
    IF HasKey(resp, "exception") THEN resp.exception
    ELSE IF ~HasKey(resp, "results") THEN "KeyError"
    ELSE IF Len(resp.results) = 0 THEN "IndexError"
    ELSE IF ~HasKey(resp.results[1], "geometry") THEN "KeyError"
    ELSE IF ~HasKey(resp.results[1].geometry, "viewport") THEN "KeyError"
    ELSE IF ~HasKey(resp.results[1].geometry, "location") THEN "KeyError"
    ELSE "none"

GeocodeFault(resp) ==
    IF HasKey(resp, "exception") THEN resp.exception
    ELSE IF ~HasKey(resp, "status") THEN "KeyError"
    ELSE IF resp.status # "OK" THEN "ValueError"
    ELSE IF ~HasKey(resp, "results") THEN "KeyError"
    ELSE IF Len(resp.results) = 0 THEN "IndexError"
    ELSE IF ~HasKey(resp.results[1], "geometry") THEN "KeyError"
    ELSE IF ~HasKey(resp.results[1].geometry, "viewport") THEN "KeyError"
    ELSE IF ~HasKey(resp.results[1].geometry, "location") THEN "KeyError"
    ELSE "none"

\* `except Exception` (lines 33 and 134): the classes the handler catches.
ExceptionClasses == { "KeyError", "IndexError", "ValueError", "TypeError", "ConnectionError" }
CaughtNarrow(e) == e = "KeyError"
CaughtByHandler(e) == e \in ExceptionClasses

_get_location_bounds(resp) ==
    IF GeocodeFault(resp) # "none"
    THEN None
    ELSE [lat    |-> resp.results[1].geometry.location.lat,
          lng    |-> resp.results[1].geometry.location.lng,
          bounds |-> resp.results[1].geometry.viewport]

(***************************************************************************)
(* _is_within_bounds (lines 37-40).                                        *)
(***************************************************************************)
BoundsFault(bounds) ==
    IF HasKey(bounds, "southwest") /\ HasKey(bounds, "northeast") THEN "none" ELSE "KeyError"

_is_within_bounds_open(lat, lng, bounds) ==
    /\ bounds.southwest.lat < lat /\ lat < bounds.northeast.lat
    /\ bounds.southwest.lng < lng /\ lng < bounds.northeast.lng

_is_within_bounds_lat_only(lat, lng, bounds) ==
    bounds.southwest.lat <= lat /\ lat <= bounds.northeast.lat

_is_within_bounds(lat, lng, bounds) ==
    /\ bounds.southwest.lat <= lat /\ lat <= bounds.northeast.lat
    /\ bounds.southwest.lng <= lng /\ lng <= bounds.northeast.lng

(***************************************************************************)
(* Pieces of generate_leads (lines 42-136).                                *)
(***************************************************************************)
Get(d, k, default) == IF HasKey(d, k) THEN d[k] ELSE default   \* d.get(k, default)

WhileGuardAlways(ls, mr) == TRUE

\* line 60: while len(leads) < max_results
WhileGuard(ls, mr) == Len(ls) < mr

\* line 81: if len(leads) >= max_results: break
CapReachedOffByOne(ls, mr) == Len(ls) > mr
CapReached(ls, mr) == Len(ls) >= mr

\* line 85: if place['place_id'] in processed_places: continue
\* line 88: processed_places.add(place_id)
MarkSeenNot(p, seen) == seen

MarkSeen(p, seen) == seen \cup { p.place_id }

AlreadyProcessedNever(p, seen) == FALSE
AlreadyProcessed(p, seen) == p.place_id \in seen

\* line 112: result.get('business_status') != 'OPERATIONAL'
NotOperational(res) == Get(res, "business_status", "None") # "OPERATIONAL"

MakeLeadNoType(res, btype) ==
    [company_name  |-> Get(res, "name", ""),
     full_address  |-> Get(res, "formatted_address", ""),
     Phone         |-> Get(res, "formatted_phone_number", "N/A"),
     Website       |-> Get(res, "website", "N/A"),
     Business_Type |-> "N/A"]

\* lines 115-121: the lead built from a details result
MakeLead(res, btype) ==
    [company_name  |-> Get(res, "name", ""),
     full_address  |-> Get(res, "formatted_address", ""),
     Phone         |-> Get(res, "formatted_phone_number", "N/A"),
     Website       |-> Get(res, "website", "N/A"),
     Business_Type |-> btype]

\* The exception lines 85-95 raise on a place, "none" when they raise nothing.
PlaceFault(p, seen, bounds) ==
    IF ~HasKey(p, "place_id") THEN "KeyError"
    ELSE IF AlreadyProcessed(p, seen) THEN "none"
    ELSE IF ~HasKey(p, "geometry") THEN "KeyError"
    ELSE BoundsFault(bounds)

\* The exception lines 105-109 raise on a details response.
DetailsFault(resp) ==
    IF HasKey(resp, "exception") THEN resp.exception
    ELSE IF ~HasKey(resp, "status") THEN "KeyError"
    ELSE IF resp.status = "OK" /\ ~HasKey(resp, "result") THEN "KeyError"
    ELSE "none"

\* The exception lines 73-80 raise on a search response.
SearchFault(resp) ==
    IF HasKey(resp, "exception") THEN resp.exception
    ELSE IF ~HasKey(resp, "status") THEN "KeyError"
    ELSE IF resp.status = "OK" /\ ~HasKey(resp, "results") THEN "KeyError"
    ELSE "none"

(***************************************************************************)
(* Python strings.  A string is the sequence of its characters, so that    *)
(* strip, split, lower, startswith and `in` are computed, not assumed.     *)
(***************************************************************************)
UpperCase == << "A", "B", "C", "D", "E", "F", "G", "H", "I", "J", "K", "L", "M",
                "N", "O", "P", "Q", "R", "S", "T", "U", "V", "W", "X", "Y", "Z" >>
LowerCase == << "a", "b", "c", "d", "e", "f", "g", "h", "i", "j", "k", "l", "m",
                "n", "o", "p", "q", "r", "s", "t", "u", "v", "w", "x", "y", "z" >>

LowerChar(c) ==
    IF \E i \in 1 .. Len(UpperCase) : UpperCase[i] = c
    THEN LowerCase[CHOOSE i \in 1 .. Len(UpperCase) : UpperCase[i] = c]
    ELSE c

Lower(str) == [i \in 1 .. Len(str) |-> LowerChar(str[i])]          \* str.lower()

IsSpace(c) == c = " "

RECURSIVE LStrip(_)
LStrip(str) ==
    IF str # << >> /\ IsSpace(Head(str)) THEN LStrip(Tail(str)) ELSE str

RECURSIVE RStrip(_)
RStrip(str) ==
    IF str # << >> /\ IsSpace(str[Len(str)])
    THEN RStrip(SubSeq(str, 1, Len(str) - 1))
    ELSE str

Strip(str) == RStrip(LStrip(str))                                  \* str.strip()

\* str.split(sep) for a one-character separator: the pieces between
\* separators, one piece (the whole string) when there is none.
RECURSIVE Split(_, _)
Split(str, sep) ==
    IF \E i \in 1 .. Len(str) : str[i] = sep
    THEN LET i == CHOOSE k \in 1 .. Len(str) :
                     str[k] = sep /\ \A j \in 1 .. k - 1 : str[j] # sep
         IN  << SubSeq(str, 1, i - 1) >> \o Split(SubSeq(str, i + 1, Len(str)), sep)
    ELSE << str >>

StartsWith(str, prefix) ==                                         \* str.startswith(prefix)
    Len(str) >= Len(prefix) /\ SubSeq(str, 1, Len(prefix)) = prefix

Contains(str, part) ==                                             \* part in str
    \E i \in 0 .. Len(str) - Len(part) : SubSeq(str, i + 1, i + Len(part)) = part

RECURSIVE Join(_, _)
Join(pieces, sep) ==                                               \* sep.join(pieces)
    IF pieces = << >> THEN << >>
    ELSE IF Len(pieces) = 1 THEN pieces[1]
    ELSE pieces[1] \o << sep >> \o Join(Tail(pieces), sep)

(***************************************************************************)
(* Lead records given to LeadQualityFilter.  A field the record does not   *)
(* carry holds Absent; str(lead.get(k, '')) of such a field is ''.         *)
(***************************************************************************)
Absent == << "<absent>" >>
Field(lead, k) == IF lead[k] = Absent THEN << >> ELSE lead[k]     \* str(lead.get(k, ''))
Truthy(str) == str # Absent /\ str # << >>                         \* if str:

\* The pieces key_facts strings are made of: a blank piece and a fact with
\* white space around it.
PiecePool == { << " " >>, << " ", "a", " " >> }

KeyFactsPool == { Join(ps, ";") : ps \in SeqsUpTo(PiecePool, MaxPieces) } \cup { Absent }

WebsitePool == { << "N", "/", "A" >>, << "H", "t", "t", "p", ":", "/", "/", "a" >> }
EmailPool   == { Absent, << "a", "@", "b" >> }
OwnerPool   == { [owner_name |-> Absent, confidence |-> Absent],
                 [owner_name |-> << "A", "l" >>, confidence |-> << "H", "i", "g", "h" >>] }
AddressPool == { << "1", " ", "N", "b", ",", " ", "N", "C" >>,
                 << "1", " ", "K", "n", ",", " ", "N", "C" >> }
TargetPool  == { Absent, << "N", "b", ",", " ", "n", "c" >>, << "N", "b" >>,
                 << "N", "b", ",", " ", "n", "c", ",", " ", "u", "s" >> }

QLead(w, e, k, o, a) ==
    [Website |-> w, discovered_emails |-> Absent, potential_emails |-> e, key_facts |-> k,
     owner_name |-> o.owner_name, confidence |-> o.confidence, full_address |-> a]

\* Every combination of the field pools.
LeadPool ==
    { QLead(w, e, k, o, a) :
        w \in WebsitePool, e \in EmailPool, k \in KeyFactsPool, o \in OwnerPool,
        a \in AddressPool }

\* A complete lead and a bare one, each with no, one and three key facts.
SmallPool ==
    { QLead(o.w, o.e, k, o.o, << "1", " ", "N", "b", ",", " ", "N", "C" >>) :
        o \in { [w |-> << "N", "/", "A" >>, e |-> Absent,
                 o |-> [owner_name |-> Absent, confidence |-> Absent]],
                [w |-> << "H", "t", "t", "p", ":", "/", "/", "a" >>, e |-> << "a", "@", "b" >>,
                 o |-> [owner_name |-> << "A", "l" >>,
                        confidence |-> << "H", "i", "g", "h" >>]] },
        k \in { << >>, << "a" >>, << "a", ";", "b", ";", "c" >> } }

\* The lists given to filter_leads: every single lead, and the short lists of
\* leads of SmallPool.
LeadLists == { << l >> : l \in LeadPool } \cup SeqsUpTo(SmallPool, MaxLeads)

\* Leads for scoring: every combination of a wider choice of the scored fields.
ScoreWebsitePool == { Absent, << "N", "/", "A" >>, << "w", "w", "w", ".", "a" >>,
                      << "H", "t", "t", "p", ":", "/", "/", "a" >> }
ScoreEmailPool   == { [discovered |-> Absent, potential |-> Absent],
                      [discovered |-> << " " >>, potential |-> Absent],
                      [discovered |-> << "a", "@", "b" >>, potential |-> Absent],
                      [discovered |-> Absent, potential |-> << "a", "@", "b" >>] }
ScoreOwnerPool   == { Absent, << " " >>, << "N", "o", "n", "e" >>, << "A", "l" >> }
ConfidencePool   == { Absent, << "H", "i", "g", "h" >>, << "m", "e", "d", "i", "u", "m" >>,
                      << "l", "o", "w" >> }

ScoreLead(w, e, k, n, c) ==
    [Website |-> w, discovered_emails |-> e.discovered, potential_emails |-> e.potential,
     key_facts |-> k, owner_name |-> n, confidence |-> c,
     full_address |-> << "1", " ", "N", "b", ",", " ", "N", "C" >>]

ScorePool ==
    { ScoreLead(w, e, k, n, c) :
        w \in ScoreWebsitePool, e \in ScoreEmailPool, k \in KeyFactsPool,
        n \in ScoreOwnerPool, c \in ConfidencePool }

\* The lead with a quality_score left by an earlier scoring.
WithStaleScore(lead) ==
    [k \in DOMAIN lead \cup { "quality_score" } |->
        IF k = "quality_score" THEN 55 ELSE lead[k]]

\* Leads for the owner term and for the scores of admitted leads: owner
\* names that are absent, blank, a placeholder in mixed case, a placeholder
\* with white space around it and a name, under every confidence, with none
\* to four key facts.
OwnerNamePool == ScoreOwnerPool \cup { << "u", "n", "k", "n", "o", "w", "n", " " >> }

QualityPool ==
    { ScoreLead(w, e, k, n, c) :
        w \in WebsitePool,
        e \in { [discovered |-> Absent, potential |-> Absent],
                [discovered |-> << "a", "@", "b" >>, potential |-> Absent] },
        k \in { Absent, << "a" >>, << "a", ";", "b" >>, << "a", ";", "b", ";", "c" >>,
                << "a", ";", "b", ";", "c", ";", "d" >> },
        n \in OwnerNamePool, c \in ConfidencePool }

\* Leads for sorting: three different leads worth 20 points, one worth 100
\* and one worth nothing.
SortPool ==
    LET none   == [discovered |-> Absent, potential |-> Absent]
        mail   == [discovered |-> << "a", "@", "b" >>, potential |-> Absent]
        site   == << "H", "t", "t", "p", ":", "/", "/", "a" >>
        facts3 == << "a", ";", "b", ";", "c" >>
    IN  { ScoreLead(site, none, Absent, Absent, Absent),
          ScoreLead(Absent, mail, Absent, Absent, Absent),
          ScoreLead(Absent, none, << "a", ";", "b" >>, Absent, Absent),
          ScoreLead(site, mail, facts3, << "A", "l" >>, << "H", "i", "g", "h" >>),
          WithStaleScore(ScoreLead(Absent, none, Absent, Absent, Absent)) }

\* The lists given to calculate_quality_score and enrich_leads_with_scores:
\* every single lead, with and without a stale score, and the short lists of
\* leads of SortPool.
ScoreLists ==
    { << l >> : l \in ScorePool }
        \cup { << WithStaleScore(l) >> : l \in ScorePool }
        \cup SeqsUpTo(SortPool, MaxSorted)

(***************************************************************************)
(* LeadQualityConfig (lines 7-15) and LeadQualityFilter (lines 17-91).     *)
(***************************************************************************)
DefaultConfig ==
    [min_key_facts |-> 3, require_website |-> TRUE, require_email |-> TRUE,
     require_owner_info |-> TRUE, min_confidence_level |-> "medium",
     strict_location_match |-> TRUE]

Configs ==
    [min_key_facts : 0 .. MaxMinKeyFacts, require_website : BOOLEAN,
     require_email : BOOLEAN, require_owner_info : BOOLEAN,
     min_confidence_level : { "medium" }, strict_location_match : BOOLEAN]

\* lines 21-25
_has_valid_website(lead) ==
    LET website == Lower(Field(lead, "Website")) IN
    /\ website \notin { << >>, << "n", "/", "a" >>, << "n", "o", "n", "e" >>,
                        << "n", "a", "n" >> }
    /\ \/ StartsWith(website, << "h", "t", "t", "p", ":", "/", "/" >>)
       \/ StartsWith(website, << "h", "t", "t", "p", "s", ":", "/", "/" >>)

\* lines 27-31
_has_valid_email(lead) ==
    \/ Strip(Field(lead, "discovered_emails")) # << >>
    \/ Strip(Field(lead, "potential_emails")) # << >>

\* line 39: the pieces of key_facts that are not blank
Facts(key_facts) == SelectSeq(Split(key_facts, ";"), LAMBDA f : Strip(f) # << >>)

_has_sufficient_key_facts_not_blank(lead, cfg) ==
    Strip(Field(lead, "key_facts")) # << >>

\* lines 33-40
_has_sufficient_key_facts(lead, cfg) ==
    LET key_facts == Field(lead, "key_facts") IN
    IF Strip(key_facts) = << >>
    THEN FALSE
    ELSE Len(Facts(key_facts)) >= cfg.min_key_facts

\* lines 42-48
_has_owner_info(lead) ==
    LET owner_name == Strip(Field(lead, "owner_name"))
        confidence == Lower(Field(lead, "confidence"))
    IN  /\ owner_name # << >>
        /\ confidence \in { << "h", "i", "g", "h" >>, << "m", "e", "d", "i", "u", "m" >> }
        /\ Lower(owner_name) \notin { << "n", "o", "n", "e" >>, << "n", "/", "a" >>,
                                      << "u", "n", "k", "n", "o", "w", "n" >> }

_matches_location_either(lead, target, cfg) ==
    IF ~cfg.strict_location_match THEN TRUE
    ELSE LET lead_address   == Lower(Field(lead, "full_address"))
             location_parts == Split(Lower(target), ",")
         IN  IF Len(location_parts) # 2 THEN TRUE
             ELSE \/ Contains(lead_address, Strip(location_parts[1]))
                  \/ Contains(lead_address, Strip(location_parts[2]))

\* lines 50-66
_matches_location(lead, target, cfg) ==
    IF ~cfg.strict_location_match THEN TRUE
    ELSE LET lead_address   == Lower(Field(lead, "full_address"))
             location_parts == Split(Lower(target), ",")
         IN  IF Len(location_parts) # 2 THEN TRUE
             ELSE /\ Contains(lead_address, Strip(location_parts[1]))
                  /\ Contains(lead_address, Strip(location_parts[2]))

AdmittedAtLevel(lead, target, cfg) ==
    /\ ~(cfg.require_website /\ ~_has_valid_website(lead))
    /\ ~(cfg.require_email /\ ~_has_valid_email(lead))
    /\ ~(cfg.require_owner_info
            /\ ~(/\ _has_owner_info(lead)
                 /\ cfg.min_confidence_level = "high"
                       => Lower(Field(lead, "confidence")) = << "h", "i", "g", "h" >>))
    /\ _has_sufficient_key_facts(lead, cfg)
    /\ ~(Truthy(target) /\ ~_matches_location(lead, target, cfg))

\* lines 74-89: the lead gets past every `continue` of the loop body
Admitted(lead, target, cfg) ==
    /\ ~(cfg.require_website /\ ~_has_valid_website(lead))
    /\ ~(cfg.require_email /\ ~_has_valid_email(lead))
    /\ ~(cfg.require_owner_info /\ ~_has_owner_info(lead))
    /\ _has_sufficient_key_facts(lead, cfg)
    /\ ~(Truthy(target) /\ ~_matches_location(lead, target, cfg))

\* lines 68-91
RECURSIVE filter_leads(_, _, _)
filter_leads(ls, target, cfg) ==
    IF ls = << >> THEN << >>
    ELSE (IF Admitted(Head(ls), target, cfg) THEN << Head(ls) >> ELSE << >>)
            \o filter_leads(Tail(ls), target, cfg)

(***************************************************************************)
(* calculate_quality_score (lines 93-118) and enrich_leads_with_scores     *)
(* (lines 120-133).                                                        *)
(***************************************************************************)
Min(a, b) == IF a <= b THEN a ELSE b

OwnerPointsNoNameTest(lead) ==
    LET confidence == Lower(Field(lead, "confidence")) IN
    IF confidence = << "h", "i", "g", "h" >> THEN 30
    ELSE IF confidence = << "m", "e", "d", "i", "u", "m" >> THEN 20
    ELSE 0

\* lines 110-116: the points given for the owner information
OwnerPoints(lead) ==
    IF _has_owner_info(lead)
    THEN LET confidence == Lower(Field(lead, "confidence")) IN
         IF confidence = << "h", "i", "g", "h" >> THEN 30
         ELSE IF confidence = << "m", "e", "d", "i", "u", "m" >> THEN 20
         ELSE 0
    ELSE 0

KeyFactPointsUncapped(lead) == Len(Facts(Field(lead, "key_facts"))) * 10

KeyFactPointsCapTwenty(lead) == Min(Len(Facts(Field(lead, "key_facts"))) * 10, 20)

\* lines 105-108: the points given for the key facts
KeyFactPoints(lead) == Min(Len(Facts(Field(lead, "key_facts"))) * 10, 30)

\* lines 93-118
calculate_quality_score(lead) ==
    (IF _has_valid_website(lead) THEN 20 ELSE 0)
        + (IF _has_valid_email(lead) THEN 20 ELSE 0)
        + KeyFactPoints(lead)
        + OwnerPoints(lead)

\* lines 125-126: the copy of the lead that carries the score
ScoredCopy(lead) ==
    [k \in DOMAIN lead \cup { "quality_score" } |->
        IF k = "quality_score" THEN calculate_quality_score(lead) ELSE lead[k]]

LeadAfterEnrichAliased(lead) == ScoredCopy(lead)

\* line 125: the score is written on lead.copy(), the lead given keeps its fields
LeadAfterEnrich(lead) == lead

\* line 129: the rows of pd.DataFrame(enriched_leads), each under its index label
Rows(ls) == [i \in 1 .. Len(ls) |-> [index |-> i, row |-> ScoredCopy(ls[i])]]

Descending(rows) ==
    \A i \in 1 .. Len(rows) - 1 : rows[i].row.quality_score >= rows[i + 1].row.quality_score

\* line 131: df.sort_values('quality_score', ascending=False).  The call names no
\* `kind`, so pandas sorts with its default, quicksort, which is documented as
\* not stable: every arrangement of the rows by descending score is a possible
\* outcome.
sort_values(rows) ==
    { sorted \in { [i \in 1 .. Len(rows) |-> rows[perm[i]]] :
                      perm \in Permutations(1 .. Len(rows)) } : Descending(sorted) }

(***************************************************************************)
(* The state after construction: no call of generate_leads is in progress. *)
(***************************************************************************)
DStart ==
    /\ pc = "idle"
    /\ max_results = 0
    /\ business_type = ""
    /\ geocode_data = None
    /\ location_data = None
    /\ leads = << >>
    /\ processed_places = {}
    /\ next_page_token = "None"
    /\ data = None
    /\ places = << >>
    /\ place = None
    /\ details_data = None
    /\ result = << >>
    /\ leadSrc = << >>
    /\ geocodeReqs = 0
    /\ searchReqs = 0
    /\ detailReqs = 0
    /\ pauseOwed = FALSE
    /\ settled = FALSE
    /\ breakLeads = << >>
    /\ exc = "none"
    /\ exit = "none"
    /\ served = 0
    /\ lookedUp = {}
    /\ dropped = {}

\* The services answer each request with any of their responses.
DInit == DStart /\ scenario = Unscripted

\* No LeadQualityFilter is in use.
QUnused ==
    /\ qpc = "unused"
    /\ config = DefaultConfig
    /\ qleads = << >>
    /\ target_location = Absent
    /\ filtered_leads = << >>
    /\ score_call = None
    /\ df = << >>

Init == DInit /\ QUnused

\* generate_leads(business_type, location, max_results) is called: lines 45-46.
Call ==
    /\ pc = "idle"
    /\ max_results' \in MaxResultsAsked(scenario)
    /\ business_type' = "dentist"
    /\ leads' = << >>
    /\ processed_places' = {}
    /\ pc' = "geocode"
    /\ UNCHANGED << geocode_data, details_data, location_data, next_page_token, data,
                    places, place, result, leadSrc, geocodeReqs, searchReqs, detailReqs,
                    pauseOwed, settled, breakLeads, exc, exit >>
    /\ UNCHANGED << scenario, served, lookedUp, dropped >>
    /\ UNCHANGED qvars

\* lines 49-58: the geocode lookup, and the early return when it gives nothing.
GetLocationBounds ==
    /\ pc = "geocode"
    /\ \E resp \in GeocodeAnswers(scenario) :
         /\ geocode_data' = resp
         /\ location_data' = _get_location_bounds(resp)
         /\ IF location_data' = None
            THEN /\ result' = << >>
                 /\ exit' = "geocode"
                 /\ pc' = "returned"
            ELSE /\ pc' = "while"
                 /\ UNCHANGED << result, exit >>
    /\ next_page_token' = "None"
    /\ geocodeReqs' = Bump(geocodeReqs)
    /\ UNCHANGED << max_results, business_type, leads, processed_places, data, places,
                    place, details_data, leadSrc, searchReqs, detailReqs, pauseOwed,
                    settled, breakLeads, exc >>
    /\ UNCHANGED << scenario, served, lookedUp, dropped >>
    /\ UNCHANGED qvars

\* lines 68-70: a request that carries a page token waits for time.sleep(2)
BeforeRequestNoSleep(token) == "search"

BeforeRequest(token) == IF token # "None" THEN "settle" ELSE "search"

\* line 60 and line 68: the loop test, then the choice between the settle
\* delay and the request.
WhileTest ==
    /\ pc = "while"
    /\ IF WhileGuard(leads, max_results)
       THEN /\ pc' = BeforeRequest(next_page_token)
            /\ UNCHANGED exit
       ELSE /\ pc' = "return"
            /\ exit' = "cap"
    /\ UNCHANGED << max_results, business_type, geocode_data, details_data,
                    location_data, leads, processed_places, next_page_token, data,
                    places, place, result, leadSrc, geocodeReqs, searchReqs, detailReqs,
                    pauseOwed, settled, breakLeads, exc >>
    /\ UNCHANGED << scenario, served, lookedUp, dropped >>
    /\ UNCHANGED qvars

\* lines 69-70: time.sleep(2) before a request that carries a page token.
SettleDelay ==
    /\ pc = "settle"
    /\ settled' = TRUE
    /\ pc' = "search"
    /\ UNCHANGED << max_results, business_type, geocode_data, details_data,
                    location_data, leads, processed_places, next_page_token, data,
                    places, place, result, leadSrc, geocodeReqs, searchReqs, detailReqs,
                    pauseOwed, breakLeads, exc, exit >>
    /\ UNCHANGED << scenario, served, lookedUp, dropped >>
    /\ UNCHANGED qvars

\* lines 73-80: the search request, its response, the status test.
SearchRequest ==
    /\ pc = "search"
    /\ \E resp \in SearchAnswers(scenario, served) :
         /\ data' = resp
         /\ IF SearchFault(resp) # "none"
            THEN /\ exc' = SearchFault(resp)
                 /\ pc' = "except"
                 /\ UNCHANGED << places, breakLeads, exit >>
            ELSE IF resp.status # "OK"
            THEN /\ breakLeads' = leads
                 /\ exit' = "status"
                 /\ pc' = "return"
                 /\ UNCHANGED << places, exc >>
            ELSE /\ places' = resp.results
                 /\ pc' = "for"
                 /\ UNCHANGED << breakLeads, exc, exit >>
    /\ searchReqs' = Bump(searchReqs)
    /\ served' = IF scenario = Unscripted THEN served ELSE served + 1
    /\ settled' = FALSE
    /\ UNCHANGED << max_results, business_type, geocode_data, details_data,
                    location_data, leads, processed_places, next_page_token, place,
                    result, leadSrc, geocodeReqs, detailReqs, pauseOwed >>
    /\ UNCHANGED << scenario, lookedUp, dropped >>
    /\ UNCHANGED qvars

\* lines 80-95: the head of the for loop, the cap, the dedup and the bounds test.
ForPlace ==
    /\ pc = "for"
    /\ IF places = << >>
       THEN /\ pc' = "endpage"
            /\ UNCHANGED << places, place, processed_places, dropped, exc >>
       ELSE LET p == Head(places) IN
            /\ place' = p
            /\ places' = Tail(places)
            /\ IF CapReached(leads, max_results)
               THEN /\ pc' = "endpage"
                    /\ UNCHANGED << processed_places, dropped, exc >>
               ELSE IF PlaceFault(p, processed_places, location_data.bounds) # "none"
               THEN /\ exc' = PlaceFault(p, processed_places, location_data.bounds)
                    /\ processed_places' =
                          IF HasKey(p, "place_id") /\ ~AlreadyProcessed(p, processed_places)
                          THEN MarkSeen(p, processed_places)
                          ELSE processed_places
                    /\ pc' = "except"
                    /\ UNCHANGED dropped
               ELSE IF AlreadyProcessed(p, processed_places)
               THEN /\ pc' = "for"
                    /\ UNCHANGED << processed_places, dropped, exc >>
               ELSE /\ processed_places' = MarkSeen(p, processed_places)
                    /\ IF _is_within_bounds(p.geometry.location.lat,
                                            p.geometry.location.lng,
                                            location_data.bounds)
                       THEN /\ pc' = "details"
                            /\ UNCHANGED dropped
                       ELSE /\ pc' = "for"
                            /\ dropped' = dropped \cup { p.place_id }
                    /\ UNCHANGED exc
    /\ UNCHANGED << max_results, business_type, geocode_data, details_data,
                    location_data, leads, next_page_token, data, result, leadSrc,
                    geocodeReqs, searchReqs, detailReqs, pauseOwed, settled, breakLeads,
                    exit >>
    /\ UNCHANGED << scenario, served, lookedUp >>
    /\ UNCHANGED qvars

\* lines 108-126: what is made of a details response: the position the run
\* goes to, the lead appended (a sequence of zero or one lead) and the
\* exception raised.
DetailsOutcomeAborting(resp) ==
    IF DetailsFault(resp) # "none"
    THEN [to |-> "except", lead |-> << >>, exc |-> DetailsFault(resp)]
    ELSE IF resp.status = "OK"
    THEN IF NotOperational(resp.result)
         THEN [to |-> "for", lead |-> << >>, exc |-> "none"]
         ELSE [to |-> "sleep", lead |-> << MakeLead(resp.result, business_type) >>,
               exc |-> "none"]
    ELSE [to |-> "except", lead |-> << >>, exc |-> "ValueError"]

DetailsOutcome(resp) ==
    IF DetailsFault(resp) # "none"
    THEN [to |-> "except", lead |-> << >>, exc |-> DetailsFault(resp)]
    ELSE IF resp.status = "OK"
    THEN IF NotOperational(resp.result)
         THEN [to |-> "for", lead |-> << >>, exc |-> "none"]
         ELSE [to |-> "sleep", lead |-> << MakeLead(resp.result, business_type) >>,
               exc |-> "none"]
    ELSE [to |-> "sleep", lead |-> << >>, exc |-> "none"]

\* lines 98-124: the detail lookup and what is made of its response.
DetailsRequest ==
    /\ pc = "details"
    /\ \E resp \in DetailAnswers(scenario, place) :
         LET out == DetailsOutcome(resp) IN
         /\ details_data' = resp
         /\ pc' = out.to
         /\ exc' = out.exc
         /\ leads' = leads \o out.lead
         /\ leadSrc' = IF out.lead = << >> THEN leadSrc
                       ELSE Append(leadSrc, [place |-> place, details |-> resp])
    /\ detailReqs' = Bump(detailReqs)
    /\ lookedUp' = lookedUp \cup { place.place_id }
    /\ pauseOwed' = TRUE
    /\ UNCHANGED << max_results, business_type, geocode_data, location_data,
                    processed_places, next_page_token, data, places, place, result,
                    geocodeReqs, searchReqs, settled, breakLeads, exit >>
    /\ UNCHANGED << scenario, served, dropped >>
    /\ UNCHANGED qvars

\* line 126: time.sleep(self.delay_between_requests)
PolitenessDelay ==
    /\ pc = "sleep"
    /\ pauseOwed' = FALSE
    /\ pc' = "for"
    /\ UNCHANGED << max_results, business_type, geocode_data, details_data,
                    location_data, leads, processed_places, next_page_token, data,
                    places, place, result, leadSrc, geocodeReqs, searchReqs, detailReqs,
                    settled, breakLeads, exc, exit >>
    /\ UNCHANGED << scenario, served, lookedUp, dropped >>
    /\ UNCHANGED qvars

\* lines 128-130: the page token of the response decides whether the loop goes on.
EndPage ==
    /\ pc = "endpage"
    /\ next_page_token' = Get(data, "next_page_token", "None")
    /\ IF next_page_token' = "None"
       THEN /\ pc' = "return"
            /\ exit' = "notoken"
       ELSE /\ pc' = "while"
            /\ UNCHANGED exit
    /\ UNCHANGED << max_results, business_type, geocode_data, details_data,
                    location_data, leads, processed_places, data, places, place, result,
                    leadSrc, geocodeReqs, searchReqs, detailReqs, pauseOwed, settled,
                    breakLeads, exc >>
    /\ UNCHANGED << scenario, served, lookedUp, dropped >>
    /\ UNCHANGED qvars

\* line 132: return leads
ReturnsNothing == << >>
Returns == leads

Return ==
    /\ pc = "return"
    /\ result' = Returns
    /\ pc' = "returned"
    /\ UNCHANGED << max_results, business_type, geocode_data, details_data,
                    location_data, leads, processed_places, next_page_token, data,
                    places, place, leadSrc, geocodeReqs, searchReqs, detailReqs,
                    pauseOwed, settled, breakLeads, exc, exit >>
    /\ UNCHANGED << scenario, served, lookedUp, dropped >>
    /\ UNCHANGED qvars

\* line 136: return []
HandlerReturnsLeads == leads
HandlerReturns == << >>

\* lines 134-136: the handler of the try block; an exception it does not catch
\* leaves the call.
Except ==
    /\ pc = "except"
    /\ IF CaughtByHandler(exc)
       THEN /\ result' = HandlerReturns
            /\ pc' = "returned"
       ELSE /\ pc' = "escaped"
            /\ UNCHANGED result
    /\ exit' = "fault"
    /\ UNCHANGED << max_results, business_type, geocode_data, details_data,
                    location_data, leads, processed_places, next_page_token, data,
                    places, place, leadSrc, geocodeReqs, searchReqs, detailReqs,
                    pauseOwed, settled, breakLeads, exc >>
    /\ UNCHANGED << scenario, served, lookedUp, dropped >>
    /\ UNCHANGED qvars

Next ==
    \/ Call
    \/ GetLocationBounds
    \/ WhileTest
    \/ SettleDelay
    \/ SearchRequest
    \/ ForPlace
    \/ DetailsRequest
    \/ PolitenessDelay
    \/ EndPage
    \/ Return
    \/ Except

Spec == Init /\ [][Next]_vars

\* The procedure is sequential: whenever it has a next step it takes it.
FairSpec == Spec /\ WF_vars(Next)

(***************************************************************************)
(* generate_leads against a stub provider, which raises nothing: the       *)
(* handler of line 134 has nothing to catch.                               *)
(***************************************************************************)
StubNext ==
    \/ Call
    \/ GetLocationBounds
    \/ WhileTest
    \/ SettleDelay
    \/ SearchRequest
    \/ ForPlace
    \/ DetailsRequest
    \/ PolitenessDelay
    \/ EndPage
    \/ Return

StubInit == DStart /\ scenario \in StubScenarios /\ QUnused

StubSpec == StubInit /\ [][StubNext]_vars

EndToEndInit == DStart /\ scenario \in EndToEndScenarios /\ QUnused

EndToEndSpec == EndToEndInit /\ [][StubNext]_vars

(***************************************************************************)
(* A use of LeadQualityFilter: a filter is constructed with a              *)
(* configuration, and filter_leads is applied to a list of leads.          *)
(***************************************************************************)
QInit ==
    /\ DInit
    /\ qpc = "constructed"
    /\ config \in Configs
    /\ qleads \in LeadLists
    /\ target_location \in TargetPool
    /\ filtered_leads = << >>
    /\ score_call = None
    /\ df = << >>

\* lines 68-91: filter_leads(leads, target_location)
FilterLeads ==
    /\ qpc = "constructed"
    /\ filtered_leads' = filter_leads(qleads, target_location, config)
    /\ qpc' = "filtered"
    /\ UNCHANGED << config, qleads, target_location, score_call, df >>
    /\ UNCHANGED dvars

QNext == FilterLeads

FilterSpec == QInit /\ [][QNext]_vars

(***************************************************************************)
(* A use of the scorer: calculate_quality_score is applied to a lead of    *)
(* a list, or enrich_leads_with_scores or filter_leads to the list.        *)
(***************************************************************************)
\* The configurations under which the scorer is used: the default one and
\* one with every check switched off.
ScoreConfigs ==
    { DefaultConfig,
      [min_key_facts |-> 0, require_website |-> FALSE, require_email |-> FALSE,
       require_owner_info |-> FALSE, min_confidence_level |-> "medium",
       strict_location_match |-> FALSE] }

SInit ==
    /\ DInit
    /\ qpc = "constructed"
    /\ config \in ScoreConfigs
    /\ qleads \in ScoreLists
    /\ target_location = Absent
    /\ filtered_leads = << >>
    /\ score_call = None
    /\ df = << >>

\* lines 93-118: calculate_quality_score(lead) for a lead of the list
CalculateQualityScore ==
    /\ qpc = "constructed"
    /\ \E i \in 1 .. Len(qleads) :
         score_call' = [lead |-> qleads[i], value |-> calculate_quality_score(qleads[i])]
    /\ qpc' = "scored"
    /\ UNCHANGED << config, qleads, target_location, filtered_leads, df >>
    /\ UNCHANGED dvars

\* lines 120-133: enrich_leads_with_scores(leads)
EnrichLeadsWithScores ==
    /\ qpc = "constructed"
    /\ IF qleads = << >>
       THEN df' = << >>
       ELSE df' \in sort_values(Rows(qleads))
    /\ qleads' = [i \in 1 .. Len(qleads) |-> LeadAfterEnrich(qleads[i])]
    /\ qpc' = "enriched"
    /\ UNCHANGED << config, target_location, filtered_leads, score_call >>
    /\ UNCHANGED dvars

SNext ==
    \/ CalculateQualityScore
    \/ EnrichLeadsWithScores
    \/ FilterLeads

ScoreSpec == SInit /\ [][SNext]_vars

(***************************************************************************)
(* A use of the filter and the scorer under every configuration of the     *)
(* requirements, of min_key_facts and of min_confidence_level.             *)
(***************************************************************************)
\* line 14: the values of min_confidence_level
ConfidenceLevels == { "high", "medium", "low" }

QualityConfigs ==
    [min_key_facts : 0 .. MaxMinKeyFacts, require_website : BOOLEAN,
     require_email : BOOLEAN, require_owner_info : BOOLEAN,
     min_confidence_level : ConfidenceLevels, strict_location_match : { FALSE }]

QualityInit ==
    /\ DInit
    /\ qpc = "constructed"
    /\ config \in QualityConfigs
    /\ qleads \in { << l >> : l \in QualityPool }
    /\ target_location = Absent
    /\ filtered_leads = << >>
    /\ score_call = None
    /\ df = << >>

QualitySpec == QualityInit /\ [][SNext]_vars

(***************************************************************************)
(* Properties of generate_leads.                                           *)
(***************************************************************************)
InRun == pc # "idle"

\* The place_id of the candidate the i-th lead was built from.
LeadId(i) == leadSrc[i].place.place_id

\* C1: every run of generate_leads eventually returns, whatever the provider
\* answers, also when every page comes with status OK and a page token.
C1_EveryRunReturns == InRun ~> (pc = "returned")

\* C2: the number of leads never exceeds max_results, in no intermediate state
\* of a run and not in the sequence returned.
C2_AtMostMaxResults ==
    InRun => /\ Len(leads) <= max_results
             /\ (pc = "returned" => Len(result) <= max_results)

\* C2 witness: a run returned exactly max_results > 0 leads and left a
\* candidate of the page unprocessed because the cap was reached.
C2_CapCutsPage ==
    /\ pc = "returned"
    /\ max_results > 0
    /\ Len(result) = max_results
    /\ HasKey(place, "place_id")
    /\ place.place_id \notin processed_places

\* C3: no two leads of a run are built from the same candidate identity.
C3_NoRepeatedIdentity ==
    /\ Len(leadSrc) = Len(leads)
    /\ \A i, j \in 1 .. Len(leadSrc) : i # j => LeadId(i) # LeadId(j)

\* C3 witness: the provider repeated inside one page the identity a lead was
\* built from, the loop visited the repetition, and the run holds one lead.
C3_RepeatVisited ==
    /\ pc = "for"
    /\ max_results = 2
    /\ Len(leads) = 1
    /\ HasKey(data, "results")
    /\ Len(data.results) = 2
    /\ places = << >>
    /\ HasKey(data.results[1], "place_id")
    /\ HasKey(data.results[2], "place_id")
    /\ data.results[1].place_id = data.results[2].place_id
    /\ leadSrc[1].place = data.results[1]

\* C4: every lead comes from a candidate whose coordinates lie inside the
\* viewport of the run and whose details response has status OK and business
\* status OPERATIONAL.
C4_LeadsInBoundsAndOperational ==
    \A i \in 1 .. Len(leadSrc) :
        LET at == leadSrc[i].place.geometry.location
            vp == location_data.bounds
            dt == leadSrc[i].details
        IN  /\ vp.southwest.lat <= at.lat /\ at.lat <= vp.northeast.lat
            /\ vp.southwest.lng <= at.lng /\ at.lng <= vp.northeast.lng
            /\ dt.status = "OK"
            /\ dt.result.business_status = "OPERATIONAL"

\* C4 witness: a run of one page returned the lead built from the second
\* candidate after it had visited a first candidate east of the viewport.
C4_OutOfBoundsDropped ==
    /\ pc = "returned"
    /\ searchReqs = 1
    /\ Len(result) = 1
    /\ HasKey(data, "results")
    /\ Len(data.results) = 2
    /\ leadSrc[1].place = data.results[2]
    /\ HasKey(data.results[1], "place_id")
    /\ data.results[1].place_id \in processed_places
    /\ data.results[1].place_id # data.results[2].place_id
    /\ data.results[1].geometry.location.lng > location_data.bounds.northeast.lng

\* C5: after every detail lookup that was answered (operational, not
\* operational, or not successful) the politeness pause is taken before the
\* run sends its next provider request or returns.
C5_PauseAfterEveryLookup ==
    (exc = "none" /\ pc \in { "search", "details", "returned" }) => ~pauseOwed

\* C6: when a search page reports a non-success status the run requests no
\* further page and returns exactly the leads collected up to then, in order.
C6_SearchFailureKeepsLeads ==
    exit = "status" =>
        /\ pc \in { "return", "returned" }
        /\ leads = breakLeads
        /\ (pc = "returned" => result = breakLeads)

\* C6 witness: a run that had collected a lead returned through the status test.
C6_ReturnedPartial ==
    /\ pc = "returned"
    /\ exit = "status"
    /\ Len(result) >= 1
    /\ searchReqs = 2

\* C7: a detail lookup answered with a non-success status drops only that
\* candidate: the step keeps the leads, the rest of the page and the page
\* token, and leads to the pause, after which the loop goes on with the next
\* candidate.
C7_FailedLookupSkipsOnlyCandidate ==
    [][ /\ (/\ pc = "details"
            /\ HasKey(details_data', "status")
            /\ details_data'.status # "OK")
           => /\ pc' = "sleep"
              /\ leads' = leads
              /\ places' = places
              /\ data' = data
              /\ next_page_token' = next_page_token
        /\ pc = "sleep"
           => /\ pc' = "for"
              /\ leads' = leads
              /\ places' = places
              /\ data' = data
              /\ next_page_token' = next_page_token ]_vars

\* C7 witness: after a failed lookup, with a lead already collected, the loop
\* is at the next candidate of the same page.
C7_ContinuedAfterFailure ==
    /\ pc = "for"
    /\ HasKey(details_data, "status")
    /\ details_data.status # "OK"
    /\ Len(leads) = 1
    /\ places # << >>

\* The geocode response reports non-success or no results.
GeocodeFailed(resp) ==
    /\ HasKey(resp, "status")
    /\ \/ resp.status # "OK"
       \/ (HasKey(resp, "results") /\ Len(resp.results) = 0)

\* C8: when the geocode lookup reports non-success or no results the run
\* returns the empty sequence and has sent one geocode request, no search
\* request and no detail request.
C8_GeocodeFailureEndsRun ==
    (geocodeReqs > 0 /\ GeocodeFailed(geocode_data)) =>
        /\ pc = "returned"
        /\ result = << >>
        /\ geocodeReqs = 1
        /\ searchReqs = 0
        /\ detailReqs = 0

\* C8 witness: a run whose geocode lookup reported non-success has returned.
C8_GeocodeFailureSeen ==
    /\ pc = "returned"
    /\ exit = "geocode"
    /\ GeocodeFailed(geocode_data)
    /\ geocode_data.status # "OK"

\* C9: no fault escapes generate_leads: every exception raised inside it,
\* whatever the provider responded, ends in the handler, and the call ends by
\* returning a sequence.
C9_NoFaultEscapes ==
    /\ pc # "escaped"
    /\ exc # "none" => pc \in { "except", "returned" }
    /\ exit = "fault" => (pc = "returned" /\ result = << >>)

\* C9 witness: a run in which a request failed after a lead was collected has
\* returned.
C9_FaultHandled ==
    /\ pc = "returned"
    /\ exit = "fault"
    /\ exc = "ConnectionError"
    /\ Len(leads) >= 1

(***************************************************************************)
(* Properties of LeadQualityFilter.                                        *)
(***************************************************************************)
\* The lead passes every check of filter_leads other than the key-facts one.
PassesOtherChecks(lead) ==
    /\ config.require_website => _has_valid_website(lead)
    /\ config.require_email => _has_valid_email(lead)
    /\ config.require_owner_info => _has_owner_info(lead)
    /\ Truthy(target_location) => _matches_location(lead, target_location, config)

InFiltered(lead) == \E j \in 1 .. Len(filtered_leads) : filtered_leads[j] = lead

\* C10: the key-facts check of filter_leads is a pure threshold: a lead that
\* passes the other checks is kept iff the number of its non-blank,
\* semicolon-separated key facts is at least min_key_facts; with
\* min_key_facts = 0 a lead without key facts is kept.
C10_KeyFactsThreshold ==
    qpc = "filtered" =>
        \A i \in 1 .. Len(qleads) :
            PassesOtherChecks(qleads[i]) =>
                (InFiltered(qleads[i])
                    <=> Len(Facts(Field(qleads[i], "key_facts"))) >= config.min_key_facts)

(***************************************************************************)
(* Properties of the scorer.                                               *)
(***************************************************************************)
\* The rows of df are the scored copies of the leads given, each once.
RowsOfInput ==
    /\ Len(df) = Len(qleads)
    /\ \A i \in 1 .. Len(qleads) : \E j \in 1 .. Len(df) : df[j] = Rows(qleads)[i]

\* C11: enrich_leads_with_scores returns the leads by descending computed
\* score, and two leads with equal scores appear in the order they had in
\* the list given (the sort is stable).
C11_DescendingAndStable ==
    qpc = "enriched" =>
        /\ RowsOfInput
        /\ Descending(df)
        /\ \A i, j \in 1 .. Len(df) :
             (i < j /\ df[i].row.quality_score = df[j].row.quality_score)
                 => df[i].index < df[j].index

ScoredFields == { "Website", "discovered_emails", "potential_emails", "key_facts",
                  "owner_name", "confidence" }

NumFacts(lead) == Len(Facts(Field(lead, "key_facts")))

\* The lead has everything the scorer rewards.
Maximal(lead) ==
    /\ _has_valid_website(lead)
    /\ _has_valid_email(lead)
    /\ NumFacts(lead) >= 3
    /\ _has_owner_info(lead)
    /\ Lower(Field(lead, "confidence")) = << "h", "i", "g", "h" >>

\* C12: the score lies in 0..100 for every combination of lead fields; it is
\* 0 when every scored field is absent, and 100 when the lead has a valid
\* website, a valid email, at least 3 key facts and a valid owner name with
\* confidence high.
C12_ScoreRange ==
    qpc = "scored" =>
        /\ score_call.value \in 0 .. 100
        /\ (\A k \in ScoredFields : score_call.lead[k] = Absent) => score_call.value = 0
        /\ Maximal(score_call.lead) => score_call.value = 100

\* A lead with four key facts and everything else was scored 100.
C12_MaximalScored ==
    /\ qpc = "scored"
    /\ Maximal(score_call.lead)
    /\ NumFacts(score_call.lead) = 4
    /\ score_call.value = 100

\* C13: with all other fields equal, the score is non-decreasing in the
\* number of non-empty key facts: it rises by exactly 10 per fact from 0 to
\* 3 facts and stays the same for 3 or more facts.  The scored lead is
\* compared with each lead that differs from it in key_facts only.
C13_TenPerFactUpToThree ==
    qpc = "scored" =>
        \A k \in KeyFactsPool :
            LET other == [score_call.lead EXCEPT !.key_facts = k]
                n     == NumFacts(score_call.lead)
                m     == NumFacts(other)
            IN  calculate_quality_score(other) - score_call.value
                    = 10 * (Min(m, 3) - Min(n, 3))

\* A lead with a valid website and four key facts was scored 50, as with three.
C13_FlatBeyondThree ==
    /\ qpc = "scored"
    /\ NumFacts(score_call.lead) = 4
    /\ _has_valid_website(score_call.lead)
    /\ score_call.value = 50
    /\ \E k \in KeyFactsPool :
         /\ Len(Facts(k)) = 3
         /\ calculate_quality_score([score_call.lead EXCEPT !.key_facts = k]) = 50

\* C16: calculate_quality_score, filter_leads and enrich_leads_with_scores
\* leave every lead given unchanged; enrich_leads_with_scores writes
\* quality_score on copies only, and the value written is the freshly
\* computed score whatever quality_score the lead given carried.
C16_InputsKeptScoreRecomputed ==
    /\ [][qleads' = qleads]_vars
    /\ [](qpc = "enriched" =>
            \A j \in 1 .. Len(df) :
                LET lead == qleads[df[j].index] IN
                /\ df[j].row.quality_score = calculate_quality_score(lead)
                /\ \A k \in DOMAIN lead \ { "quality_score" } : df[j].row[k] = lead[k])

\* A lead that carried a stale quality_score was enriched: the lead still
\* carries it and the row carries the computed score.
C16_StaleScoreReplaced ==
    /\ qpc = "enriched"
    /\ \E j \in 1 .. Len(df) :
         LET lead == qleads[df[j].index] IN
         /\ "quality_score" \in DOMAIN lead
         /\ lead.quality_score = 55
         /\ df[j].row.quality_score = 20

\* The comma-separated parts of the target location, trimmed.
TargetParts ==
    LET parts == Split(target_location, ",") IN [i \in 1 .. Len(parts) |-> Strip(parts[i])]

\* The part occurs in the lead's address, letter case aside.
InAddress(part, lead) == Contains(Lower(Field(lead, "full_address")), Lower(part))

\* The location check as stated: it fails only under strict matching with a
\* target of exactly two parts one of which is not in the address.
LocationRejects(lead) ==
    /\ config.strict_location_match
    /\ Truthy(target_location)
    /\ Len(TargetParts) = 2
    /\ \E i \in 1 .. 2 : ~InAddress(TargetParts[i], lead)

\* The lead satisfies every enabled admission predicate, the key-facts one
\* being the threshold on the number of non-empty key facts.
SatisfiesEnabled(lead) ==
    /\ config.require_website => _has_valid_website(lead)
    /\ config.require_email => _has_valid_email(lead)
    /\ config.require_owner_info => _has_owner_info(lead)
    /\ NumFacts(lead) >= config.min_key_facts
    /\ ~LocationRejects(lead)

\* C14: filter_leads returns a subsequence of its input in input order that
\* holds exactly the leads satisfying every enabled admission predicate; a
\* predicate whose toggle is off never rejects a lead.
C14_ExactlyTheAdmitted ==
    qpc = "filtered" => filtered_leads = SelectSeq(qleads, SatisfiesEnabled)

\* The lead passes every check of filter_leads other than the location one.
PassesNonLocationChecks(lead) ==
    /\ config.require_website => _has_valid_website(lead)
    /\ config.require_email => _has_valid_email(lead)
    /\ config.require_owner_info => _has_owner_info(lead)
    /\ _has_sufficient_key_facts(lead, config)

\* C15: the location check of filter_leads rejects a lead only when
\* strict_location_match is set, a target location is given, the target
\* splits into exactly two comma-separated parts and one of the trimmed
\* parts is not a case-insensitive substring of full_address; a target with
\* any other number of parts admits every address.
C15_LocationCheck ==
    qpc = "filtered" =>
        \A i \in 1 .. Len(qleads) :
            PassesNonLocationChecks(qleads[i]) =>
                (InFiltered(qleads[i]) <=> ~LocationRejects(qleads[i]))

\* Under strict matching a lead of another city was rejected for the
\* two-part target although it passes the other checks.
C15_OtherCityRejected ==
    /\ qpc = "filtered"
    /\ config.strict_location_match
    /\ Len(TargetParts) = 2
    /\ Len(qleads) = 1
    /\ PassesNonLocationChecks(qleads[1])
    /\ ~InAddress(TargetParts[1], qleads[1])
    /\ InAddress(TargetParts[2], qleads[1])
    /\ filtered_leads = << >>

(***************************************************************************)
(* Properties of the requests of generate_leads.                           *)
(***************************************************************************)
\* C20: every search request that carries a page token is preceded by the
\* settle delay, taken after the previous page was processed and right
\* before the request is sent; the first request of a run carries no token
\* and has no settle delay.
C20_SettleBeforeTokenRequest ==
    /\ pc = "search" => (next_page_token # "None" <=> settled)
    /\ (pc = "search" /\ searchReqs = 0) => (next_page_token = "None" /\ ~settled)
    /\ settled => pc = "search"

\* The second request of a run is about to be sent with a token, after the delay.
C20_TokenRequestAfterDelay ==
    /\ pc = "search"
    /\ searchReqs = 1
    /\ next_page_token # "None"
    /\ settled

\* C19: in one run at most one detail lookup is issued per identity, and
\* none for a candidate outside the bounds: the identity is marked seen
\* before any check, so a candidate dropped by the bounds test, by a failed
\* lookup or for not being operational is not looked up when it reappears.
C19_OneLookupPerIdentity ==
    /\ pc = "details" =>
          /\ place.place_id \notin lookedUp
          /\ place.place_id \notin dropped
          /\ _is_within_bounds(place.geometry.location.lat, place.geometry.location.lng,
                               location_data.bounds)
    /\ lookedUp \cup dropped \subseteq processed_places
    /\ lookedUp \cap dropped = {}

\* On the second page a candidate came back, now inside the bounds, whose
\* identity the bounds test had dropped, and it was passed over; another
\* identity had already been looked up.
C19_DroppedNotLookedUp ==
    /\ pc = "for"
    /\ searchReqs = 2
    /\ HasKey(place, "place_id")
    /\ place.place_id \in dropped
    /\ _is_within_bounds(place.geometry.location.lat, place.geometry.location.lng,
                         location_data.bounds)
    /\ lookedUp # {}
    /\ ~CapReached(leads, max_results)

\* C17: generate_leads("dentist", "Newbern, NC", 5) against a provider
\* whose search returns 7 candidates, 2 of them with the same identity, 1
\* outside the bounds and 1 not operational, returns exactly 4 leads, each
\* with Business Type "dentist".
C17_EndToEndFourDentists ==
    pc = "returned" =>
        /\ Len(result) = 4
        /\ \A i \in 1 .. Len(result) : result[i].Business_Type = "dentist"

\* The run returned after both pages, the two candidates of one identity
\* being on different pages.
C17_EndToEndReturned ==
    /\ pc = "returned"
    /\ served = 2
    /\ max_results = 5
    /\ Len(result) = 4
    /\ \E i \in 1 .. 4 : scenario.pages[1][i].place_id = 1
    /\ \E i \in 1 .. 3 : scenario.pages[2][i].place_id = 1
    /\ Cardinality(dropped) = 1

\* The candidates of the pages of the provider, in the order it serves them.
RECURSIVE Flatten(_)
Flatten(pages) == IF pages = << >> THEN << >> ELSE Head(pages) \o Flatten(Tail(pages))

\* The first occurrence of each identity.
FirstOccurrences(cands) ==
    LET firsts == { i \in 1 .. Len(cands) :
                      \A j \in 1 .. i - 1 : cands[j].place_id # cands[i].place_id }
        F[i \in 0 .. Len(cands)] ==
            IF i = 0 THEN << >>
            ELSE IF i \in firsts THEN Append(F[i - 1], cands[i]) ELSE F[i - 1]
    IN  F[Len(cands)]

\* The inclusive rectangle test: a point on any of the four edges is inside.
InRectangle(p) ==
    /\ Viewport.southwest.lat <= p.geometry.location.lat
    /\ p.geometry.location.lat <= Viewport.northeast.lat
    /\ Viewport.southwest.lng <= p.geometry.location.lng
    /\ p.geometry.location.lng <= Viewport.northeast.lng

Kept(p) == InRectangle(p) /\ p.place_id \in scenario.operational

ExpectedLead(p) ==
    [company_name |-> PlaceNames[p.place_id], full_address |-> "1 Main St",
     Phone |-> "N/A", Website |-> "N/A", Business_Type |-> "dentist"]

KeptCandidates == SelectSeq(FirstOccurrences(Flatten(scenario.pages)), Kept)

Reference ==
    LET n == Min(Len(KeptCandidates), scenario.max_results)
    IN  [i \in 1 .. n |-> ExpectedLead(KeptCandidates[i])]

\* C18: when no provider request fails, generate_leads returns the
\* reference: the candidates of the pages in provider order, the first
\* occurrence of each identity only, those inside the inclusive rectangle (a
\* point on an edge is inside) whose details report OPERATIONAL, cut to the
\* first max_results, in the order of the provider.
C18_EqualsReference ==
    pc = "returned" => result = Reference

\* The run returned the first two of three kept candidates, from both corner
\* points of the viewport, the provider having served an identity twice.
C18_TruncatedReference ==
    /\ pc = "returned"
    /\ Len(KeptCandidates) = 3
    /\ Len(Flatten(scenario.pages)) = 4
    /\ Len(result) = 2
    /\ result = Reference
    /\ KeptCandidates[1].geometry.location # KeptCandidates[2].geometry.location

(***************************************************************************)
(* Properties of the owner term, of min_confidence_level and of the scores *)
(* of admitted leads.                                                      *)
(***************************************************************************)
Placeholders == { << "n", "o", "n", "e" >>, << "n", "/", "a" >>,
                  << "u", "n", "k", "n", "o", "w", "n" >> }

\* The owner name, white space around it aside, is not blank and is not a
\* placeholder, letter case aside.
NamesAnOwner(lead) ==
    LET name == Strip(Field(lead, "owner_name")) IN
    name # << >> /\ Lower(name) \notin Placeholders

ConfidenceIs(lead, level) == Lower(Field(lead, "confidence")) = level

\* The part of the score the owner fields account for: the score less the
\* score of the same lead without owner name.
OwnerTerm ==
    score_call.value
        - calculate_quality_score([score_call.lead EXCEPT !.owner_name = Absent])

\* C21: the owner term of the score is 30 exactly when the owner name is not
\* blank, not one of none, n/a, unknown (letter case aside) and confidence
\* is high, 20 exactly when the same holds with confidence medium, and 0
\* otherwise; a lead with confidence low or absent has owner term 0 and
\* fails _has_owner_info whatever its owner name.
C21_OwnerTerm ==
    qpc = "scored" =>
        LET lead   == score_call.lead
            high   == << "h", "i", "g", "h" >>
            medium == << "m", "e", "d", "i", "u", "m" >>
        IN  /\ OwnerTerm = 30 <=> (NamesAnOwner(lead) /\ ConfidenceIs(lead, high))
            /\ OwnerTerm = 20 <=> (NamesAnOwner(lead) /\ ConfidenceIs(lead, medium))
            /\ OwnerTerm \in { 0, 20, 30 }
            /\ _has_owner_info(lead) <=> OwnerTerm > 0
            /\ (~ConfidenceIs(lead, high) /\ ~ConfidenceIs(lead, medium))
                   => (OwnerTerm = 0 /\ ~_has_owner_info(lead))

\* A lead with an owner name and confidence low was scored: its owner term
\* is 0 although it has a website, an email and three key facts.
C21_LowConfidenceScored ==
    /\ qpc = "scored"
    /\ NamesAnOwner(score_call.lead)
    /\ ConfidenceIs(score_call.lead, << "l", "o", "w" >>)
    /\ score_call.value = 70
    /\ OwnerTerm = 0

\* C22: the results of filter_leads and of calculate_quality_score do not
\* depend on min_confidence_level: configurations that differ in it only
\* give the same filtered list and the same score for every input, so a
\* lead with confidence medium is admitted on owner information even when
\* min_confidence_level is high.
C22_LevelIgnored ==
    /\ qpc = "filtered" =>
          \A level \in ConfidenceLevels :
              filter_leads(qleads, target_location,
                           [config EXCEPT !.min_confidence_level = level]) = filtered_leads
    /\ qpc = "scored" => score_call.value = calculate_quality_score(score_call.lead)

\* Under min_confidence_level high and with owner information required, a
\* lead with confidence medium was admitted.
C22_MediumAdmittedAtHigh ==
    /\ qpc = "filtered"
    /\ config.min_confidence_level = "high"
    /\ config.require_owner_info
    /\ Len(qleads) = 1
    /\ ConfidenceIs(qleads[1], << "m", "e", "d", "i", "u", "m" >>)
    /\ filtered_leads = qleads

\* The least score of a lead the configuration admits: 20 for each of the
\* website and email requirements, 20 for the owner requirement, and 10 per
\* key fact demanded up to 30.
ScoreFloor(cfg) ==
    (IF cfg.require_website THEN 20 ELSE 0)
        + (IF cfg.require_email THEN 20 ELSE 0)
        + (IF cfg.require_owner_info THEN 20 ELSE 0)
        + Min(10 * cfg.min_key_facts, 30)

\* C25: under a configuration that requires website, email and owner
\* information and has min_key_facts >= 3, every lead filter_leads admits
\* has a score of at least 90; in general the score of an admitted lead is at
\* least 20 per website or email requirement, plus 20 when owner
\* information is required, plus min(10 * min_key_facts, 30).
C25_AdmittedScoreFloor ==
    qpc = "filtered" =>
        \A j \in 1 .. Len(filtered_leads) :
            /\ calculate_quality_score(filtered_leads[j]) >= ScoreFloor(config)
            /\ (/\ config.require_website
                /\ config.require_email
                /\ config.require_owner_info
                /\ config.min_key_facts >= 3)
                   => calculate_quality_score(filtered_leads[j]) >= 90

\* Under the strictest configuration a lead was admitted whose score is
\* exactly 90.
C25_AdmittedAtNinety ==
    /\ qpc = "filtered"
    /\ config.require_website
    /\ config.require_email
    /\ config.require_owner_info
    /\ config.min_key_facts = 3
    /\ Len(filtered_leads) = 1
    /\ calculate_quality_score(filtered_leads[1]) = 90

(***************************************************************************)
(* Properties of the end of a run of generate_leads.                       *)
(***************************************************************************)
\* C23: once the number of collected leads equals max_results the run
\* issues no further detail lookup and no further page request before it
\* returns, even when the last page carried a page token; with
\* max_results = 0 it issues no search request at all.
C23_NoRequestAfterCap ==
    /\ pc \in { "settle", "search", "details" } => Len(leads) < max_results
    /\ (pc # "idle" /\ max_results = 0) => (searchReqs = 0 /\ detailReqs = 0)

\* The run left the loop at the cap although the last page carried a token
\* and a candidate that was not looked at.
C23_CapWithTokenLeft ==
    /\ pc = "return"
    /\ exit = "cap"
    /\ max_results >= 1
    /\ Len(leads) = max_results
    /\ next_page_token # "None"
    /\ HasKey(place, "place_id")
    /\ place.place_id \notin processed_places

\* C24: when a fault occurs in the middle of a run (a search or details
\* response that lacks an expected field, or a request that fails) the call
\* returns the empty list: the leads collected before the fault are
\* discarded, unlike on a non-success status, where they are returned.
C24_FaultDiscardsLeads ==
    /\ (pc = "returned" /\ exc # "none") => result = << >>
    /\ (pc = "returned" /\ exit = "status") => result = leads
    /\ exc # "none" => exit # "status"

\* A details response without the expected field came after a lead had been
\* collected, and the call returned nothing.
C24_LeadDiscarded ==
    /\ pc = "returned"
    /\ exc = "KeyError"
    /\ ~HasKey(details_data, "exception")
    /\ DetailsFault(details_data) = "KeyError"
    /\ Len(leads) >= 1
    /\ result = << >>

=============================================================================
